---- MODULE Spec2Model ----
(***************************************************************************)
(* The site-metadata layer of dmitripavlutin.com:                          *)
(*   gatsby/config/site-metadata.js    the Configuration Store             *)
(*   src/hooks/useAuthorAndSiteInfo.ts the Projection Accessor             *)
(*   src/components/Affiliates         two components that consume them    *)
(* JavaScript values are modelled as follows: a string is a TLA+ string,   *)
(* an object is a record, an array is a sequence (index i of the array is  *)
(* index i+1 of the sequence), and null / undefined / a thrown error are   *)
(* records with a "kind" field.                                            *)
(***************************************************************************)
EXTENDS Naturals, Sequences, FiniteSets, TLC

VARIABLES processEnv, store, schema, files, calls, rendered

vars == <<processEnv, store, schema, files, calls, rendered>>

\* ------------------------------------------------------------------ bounds
MaxCalls == 3

\* --------------------------------------------------------- JavaScript values
Null == [kind |-> "null"]
Undefined == [kind |-> "undefined"]
TypeError == [kind |-> "TypeError"]
ReferenceError == [kind |-> "ReferenceError"]
QueryError == [kind |-> "StaticQueryError"]

\* a value that is a string or undefined carries its string in a box
Str(s) == [kind |-> "string", value |-> s]

IsNullish(v) == v = Null \/ v = Undefined

IsThrown(v) == v \in {TypeError, ReferenceError, QueryError}

\* ------------------------------------------------------ Configuration Store
siteUrl == "https://dmitripavlutin.com"

\* process.env[name] === value: process.env is a function from the names of
\* the variables that are set to their strings; an unset variable reads as
\* undefined, which is strictly equal to no string
EnvEquals(env, name, value) == name \in DOMAIN env /\ env[name] = value

\* a plausible slip: only one spelling is recognised
isProductionModeOneSpelling(env) == EnvEquals(env, "NODE_ENV", "production")

isProductionMode(env) ==
  EnvEquals(env, "NODE_ENV", "production") \/ EnvEquals(env, "NODE_ENV", "prod")

\* a plausible slip: the title carries the meta title
siteInfoMetaTitle ==
  [ title |-> "Dmitri Pavlutin Blog",
    description |-> "I help developers understand Frontend technologies",
    metaTitle |-> "Dmitri Pavlutin Blog",
    metaDescription |-> "Dmitri Pavlutin Blog is a place to learn about JavaScript, CSS, React, Vue and more on Frontend development",
    url |-> siteUrl,
    repositoryUrl |-> "https://github.com/panzerdp/dmitripavlutin.com",
    githubCommentsRepository |-> "panzerdp/dmitripavlutin.com-comments",
    googleCustomSearchId |-> "004443697379288327791:1zr8pgnumxn" ]

siteInfo ==
  [ title |-> "Dmitri Pavlutin",
    description |-> "I help developers understand Frontend technologies",
    metaTitle |-> "Dmitri Pavlutin Blog",
    metaDescription |-> "Dmitri Pavlutin Blog is a place to learn about JavaScript, CSS, React, Vue and more on Frontend development",
    url |-> siteUrl,
    repositoryUrl |-> "https://github.com/panzerdp/dmitripavlutin.com",
    githubCommentsRepository |-> "panzerdp/dmitripavlutin.com-comments",
    googleCustomSearchId |-> "004443697379288327791:1zr8pgnumxn" ]

authorInfo ==
  [ name |-> "Dmitri Pavlutin",
    \* (the source string ends with an emoji before the full stop)
    description |-> "Tech writer and coach. My daily routine consists of (but not limited to) drinking coffee, coding, writing, coaching, overcoming boredom.",
    job |-> "",
    email |-> "dmitripavlutin@gmail.com",
    jobTitle |-> "Software Developer",
    profiles |->
      [ stackoverflow |-> "https://stackoverflow.com/users/1894471/dmitri-pavlutin",
        twitter |-> "https://twitter.com/panzerdp",
        linkedin |-> "https://www.linkedin.com/in/dmitri-pavlutin/",
        github |-> "https://github.com/panzerdp",
        facebook |-> "https://www.facebook.com/dmitripavlutin.dev" ],
    nicknames |-> [ twitter |-> "panzerdp" ] ]

emailSubscriptionService ==
  [ endpoint |-> "https://dmitripavlutin.us13.list-manage.com/subscribe/post?u=7cedcb1f5ab74eb7c907e768e&id=75f44f92b9",
    hiddenFieldName |-> "b_7cedcb1f5ab74eb7c907e768e_75f44f92b9" ]

carbonAdsService(env) ==
  [ scriptSrc |-> "//cdn.carbonads.com/carbon.js?serve=CE7DT2QI&placement=dmitripavlutincom",
    isEnabled |-> TRUE,
    isProductionMode |-> isProductionMode(env) ]

featured ==
  [ popularPostsByCategory |->
      << [ category |-> "JavaScript",
           slugs |-> << "javascript-closure",
                        "gentle-explanation-of-this-in-javascript",
                        "differences-between-arrow-and-regular-functions" >> ],
         [ category |-> "React",
           slugs |-> << "react-useeffect-explanation",
                        "react-usecallback",
                        "use-react-memo-wisely" >> ] >> ]

affiliates ==
  << [ tag |-> "react",
       courseTitle |-> "React Front To Back Course",
       courseLink |-> "https://www.traversymedia.com/a/2147528895/FqXWyazh",
       pitch |-> "This is just an example of pitch" ],
     [ tag |-> "javascript",
       courseTitle |-> "Modern JavaScript From The Beginning 2.0",
       courseLink |-> "https://www.traversymedia.com/a/2147528886/FqXWyazh",
       pitch |-> "This is just an example of pitch" ] >>

\* module.exports of site-metadata.js, evaluated once under the environment env
SiteMetadata(env) ==
  [ siteUrl |-> siteUrl,
    siteInfo |-> siteInfo,
    authorInfo |-> authorInfo,
    emailSubscriptionService |-> emailSubscriptionService,
    carbonAdsService |-> carbonAdsService(env),
    featured |-> featured,
    affiliates |-> affiliates ]

\* The store definitions the model is run on: the repository's, and
\* definitions of the same shape with other values
Titles == {siteInfo.title, "Another Blog"}

AffiliateLists ==
  { affiliates,
    << affiliates[2], affiliates[1] >>,
    << affiliates[2] >>,
    << >> }

Definitions(env) ==
  { [ SiteMetadata(env) EXCEPT !.siteInfo.title = t,
                               !.affiliates = a,
                               !.carbonAdsService.isEnabled = e ] :
      t \in Titles, a \in AffiliateLists, e \in BOOLEAN }

\* The environments the build runs in: NODE_ENV set to a string, or not set
NoEnv == [n \in {} |-> ""]

Environments ==
  {NoEnv} \cup
  { [n \in {"NODE_ENV"} |-> v] : v \in {"production", "prod", "development", "Production", ""} }

\* ------------------------------------------------------ external data layer
\* The fields the query requests, by fragment
\* a plausible slip: a field is left out of the fragment
SiteInfoAllShort ==
  { "title", "description", "metaTitle", "metaDescription", "url",
    "repositoryUrl", "githubCommentsRepository" }

SiteInfoAll ==
  { "title", "description", "metaTitle", "metaDescription", "url",
    "repositoryUrl", "githubCommentsRepository", "googleCustomSearchId" }

AuthorInfoAllScalars == { "name", "description", "job", "email", "jobTitle" }

\* a plausible slip: a profile is left out of the fragment
AuthorInfoAllProfilesShort == { "stackoverflow", "twitter", "linkedin", "github" }

AuthorInfoAllProfiles == { "stackoverflow", "twitter", "linkedin", "github", "facebook" }

AuthorInfoAllNicknames == { "twitter" }

\* a plausible slip: a field is left out of the selection
AffiliatesSelectionShort == { "tag", "courseTitle", "courseLink" }

AffiliatesSelection == { "tag", "courseTitle", "pitch", "courseLink" }

\* the selection sets of the query AuthorInfoAndPictures, by the type selected on
AuthorInfoAndPictures ==
  [ siteInfo |-> SiteInfoAll,
    authorInfo |-> AuthorInfoAllScalars \cup {"profiles", "nicknames"},
    profiles |-> AuthorInfoAllProfiles,
    nicknames |-> AuthorInfoAllNicknames,
    affiliates |-> AffiliatesSelection ]

\* The schema the data layer builds for siteMetadata: the fields of each type.
\* A well-formed build has the fields of the store definition; a malformed one
\* lacks a field the query asks for.
WellFormedSchema ==
  [ siteInfo |-> DOMAIN siteInfo,
    authorInfo |-> DOMAIN authorInfo,
    profiles |-> DOMAIN authorInfo.profiles,
    nicknames |-> DOMAIN authorInfo.nicknames,
    affiliates |-> DOMAIN affiliates[1] ]

Schemas ==
  { WellFormedSchema,
    [WellFormedSchema EXCEPT !.affiliates = @ \ {"pitch"}],
    [WellFormedSchema EXCEPT !.siteInfo = @ \ {"googleCustomSearchId"}] }

\* a query is valid against a schema when every field it selects exists
QueryValid(query, sch) == \A type \in DOMAIN query : query[type] \subseteq sch[type]

\* the object obj restricted to the selected fields
Select(obj, fields) == [f \in fields |-> obj[f]]

\* The file nodes of the build: the profile picture may be missing, may be
\* present without an image node (childImageSharp), or present with one
File(relativePath, sharp, digest) ==
  [relativePath |-> relativePath, sharp |-> sharp, digest |-> digest]

OtherFile == File("cover.png", TRUE, "c0ffee")

FileSets ==
  { {OtherFile},
    {OtherFile, File("louvre.jpg", FALSE, "a1b2")},
    {OtherFile, File("louvre.jpg", TRUE, "a1b2")},
    {OtherFile, File("louvre.jpg", TRUE, "c3d4")} }

\* file(relativePath: { eq: path }): the file node of that path, or null
FileByRelativePath(fs, path) ==
  IF \E f \in fs : f.relativePath = path
    THEN CHOOSE f \in fs : f.relativePath = path
    ELSE Null

\* the URL under which the build publishes a processed image
StaticSrc(f, width) ==
  CASE f.digest = "a1b2" -> "/static/a1b2/louvre.jpg"
    [] f.digest = "c3d4" -> "/static/c3d4/louvre.jpg"
    [] OTHER -> "/static/c0ffee/cover.png"

\* gatsbyImageData(width, quality, layout, formats): the image descriptor of
\* a file; with AUTO among the formats the fallback image is in the source
\* format, and every other format is a source
gatsbyImageData(f, args) ==
  [ layout |-> args.layout,
    width |-> args.width,
    images |->
      [ fallback |-> [ src |-> StaticSrc(f, args.width) ],
        sources |-> IF "AVIF" \in args.formats
                      THEN << [ type |-> "image/avif", digest |-> f.digest ] >>
                      ELSE << >> ] ]

ProfilePictureArgs ==
  [ width |-> 300, quality |-> 60, layout |-> "constrained", formats |-> {"AUTO", "AVIF"} ]

\* authorProfilePicture: file(...) { childImageSharp { gatsbyImageData(...) } }
ResolveProfilePicture(fs) ==
  LET f == FileByRelativePath(fs, "louvre.jpg")
  IN  IF f = Null THEN Null
      ELSE IF ~f.sharp THEN [ childImageSharp |-> Null ]
      ELSE [ childImageSharp |-> [ gatsbyImageData |-> gatsbyImageData(f, ProfilePictureArgs) ] ]

\* one affiliates entry as the query selects it
ResolveAffiliate(offer) == Select(offer, AuthorInfoAndPictures.affiliates)

\* a plausible slip: the list comes back in the opposite order
ResolveAffiliatesReversed(list) ==
  [ i \in 1..Len(list) |-> ResolveAffiliate(list[Len(list) + 1 - i]) ]

\* affiliates { tag courseTitle pitch courseLink }: the list, entry by entry
ResolveAffiliates(list) == [ i \in 1..Len(list) |-> ResolveAffiliate(list[i]) ]

\* authorInfo { ...AuthorInfoAll }
ResolveAuthorInfo(info) ==
  [ f \in AuthorInfoAndPictures.authorInfo |->
      CASE f = "profiles" -> Select(info.profiles, AuthorInfoAndPictures.profiles)
        [] f = "nicknames" -> Select(info.nicknames, AuthorInfoAndPictures.nicknames)
        [] OTHER -> info[f] ]

\* useStaticQuery(graphql`...`): the data of the query, or an error when the
\* query does not resolve against the schema
useStaticQuery(sch, st, fs) ==
  IF ~QueryValid(AuthorInfoAndPictures, sch) THEN QueryError
  ELSE
    [ site |->
        [ siteMetadata |->
            [ authorInfo |-> ResolveAuthorInfo(st.authorInfo),
              siteInfo |-> Select(st.siteInfo, AuthorInfoAndPictures.siteInfo),
              affiliates |-> ResolveAffiliates(st.affiliates) ] ],
      authorProfilePicture |-> ResolveProfilePicture(fs) ]

\* --------------------------------------------------------- gatsby-plugin-image
\* getImage(node): the image descriptor in node, or undefined
getImage(node) ==
  IF IsNullish(node) THEN Undefined
  ELSE IF "images" \in DOMAIN node THEN node
  ELSE IF "gatsbyImageData" \in DOMAIN node THEN node.gatsbyImageData
  ELSE IF "childImageSharp" \in DOMAIN node /\ ~IsNullish(node.childImageSharp)
    THEN node.childImageSharp.gatsbyImageData
  ELSE Undefined

\* a plausible slip: only the file node is looked into
getSrcOfFileNode(node) ==
  IF ~IsNullish(node) /\ "childImageSharp" \in DOMAIN node /\ ~IsNullish(node.childImageSharp)
    THEN Str(node.childImageSharp.gatsbyImageData.images.fallback.src)
    ELSE Undefined

\* getSrc(node) = getImage(node)?.images?.fallback?.src
getSrc(node) ==
  LET image == getImage(node)
  IN  IF /\ "images" \in DOMAIN image
         /\ "fallback" \in DOMAIN image.images
         /\ "src" \in DOMAIN image.images.fallback
        THEN Str(image.images.fallback.src)
        ELSE Undefined

\* -------------------------------------------------------- Projection Accessor
\* a plausible slip: optional chaining lets a missing picture through
useAuthorAndSiteInfoLenient(sch, st, fs) ==
  LET data == useStaticQuery(sch, st, fs)
  IN  IF IsThrown(data) THEN data
      ELSE
        LET picture == data.authorProfilePicture
            imageData ==
              IF IsNullish(picture) \/ IsNullish(picture.childImageSharp)
                THEN Undefined
                ELSE picture.childImageSharp.gatsbyImageData
        IN  [ author |->
                [ info |-> data.site.siteMetadata.authorInfo,
                  profilePicture |-> imageData,
                  profilePictureSrc |-> getSrc(imageData) ],
              site |-> data.site.siteMetadata.siteInfo,
              affiliates |-> data.site.siteMetadata.affiliates ]

\* useAuthorAndSiteInfo(): the projected metadata, or the error thrown.
\* Reading a property of null throws a TypeError.
useAuthorAndSiteInfo(sch, st, fs) ==
  LET data == useStaticQuery(sch, st, fs)
  IN  IF IsThrown(data) THEN data
      ELSE IF IsNullish(data.authorProfilePicture) THEN TypeError
      ELSE IF IsNullish(data.authorProfilePicture.childImageSharp) THEN TypeError
      ELSE
        LET imageData == data.authorProfilePicture.childImageSharp.gatsbyImageData
        IN  [ author |->
                [ info |-> data.site.siteMetadata.authorInfo,
                  profilePicture |-> imageData,
                  profilePictureSrc |-> getSrc(imageData) ],
              site |-> data.site.siteMetadata.siteInfo,
              affiliates |-> data.site.siteMetadata.affiliates ]

\* ------------------------------------------------------------------ components
NotRendered == [kind |-> "not-rendered"]

\* The names the body of Affiliates binds (its destructuring of the accessor's
\* result and the module's imports) and the names its JSX reads
AffiliatesBindings(result) ==
  [ affiliates |-> result.affiliates, styles |-> "index.module.scss" ]

AffiliatesReads == { "styles", "info" }

\* Affiliates(): the element rendered, or the error thrown; reading a name
\* that is not bound throws a ReferenceError
Affiliates(result) ==
  IF IsThrown(result) THEN result
  ELSE
    LET scope == AffiliatesBindings(result)
    IN  IF ~(AffiliatesReads \subseteq DOMAIN scope) THEN ReferenceError
        ELSE [ kind |-> "element",
               iconHref |-> << "mailto:", scope.info.email >>,
               iconTitle |-> << "Write a message to ", scope.info.name >>,
               textHref |-> << "mailto:", scope.info.email, "?subject=Book a JavaScript coaching session" >>,
               textTitle |-> << "Write a message to ", scope.info.name >> ]

\* a plausible slip: the two branches of the conditional are exchanged
CarbonAdExchanged(props) ==
  IF ~props.carbonAdsService.isEnabled THEN Null
  ELSE [ kind |-> "fragment",
         children |->
           << [ component |-> "div", className |-> "carbonAd" ],
              IF props.carbonAdsService.isProductionMode
                THEN [ component |-> "CarbonBannerDemo" ]
                ELSE [ component |-> "CarbonBannerLive",
                       scriptSrc |-> props.carbonAdsService.scriptSrc ] >> ]

\* CarbonAd(props): null when the service is disabled, else a fragment of
\* the container and the banner the conditional chooses
CarbonAd(props) ==
  IF ~props.carbonAdsService.isEnabled THEN Null
  ELSE [ kind |-> "fragment",
         children |->
           << [ component |-> "div", className |-> "carbonAd" ],
              IF props.carbonAdsService.isProductionMode
                THEN [ component |-> "CarbonBannerLive",
                       scriptSrc |-> props.carbonAdsService.scriptSrc ]
                ELSE [ component |-> "CarbonBannerDemo" ] >> ]

\* the components, other than Affiliates, that call the accessor
Consumers == { "consumer" }

\* ------------------------------------------------------------------ behaviour
\* The state once the build has loaded site-metadata.js under the process
\* environment and the data layer has built its schema and file nodes;
\* nothing has been rendered yet.
Init ==
  /\ processEnv \in Environments
  /\ store \in Definitions(processEnv)
  /\ schema \in Schemas
  /\ files \in FileSets
  /\ calls = << >>
  /\ rendered = [ c \in {"Affiliates", "CarbonAd"} |-> NotRendered ]

\* a plausible slip: the call reorders the store's list in place
InvokeReordering(c) ==
  /\ Len(calls) < MaxCalls
  /\ calls' = Append(calls, [ by |-> c, result |-> useAuthorAndSiteInfo(schema, store, files) ])
  /\ store' = [ store EXCEPT !.affiliates = [ i \in 1..Len(@) |-> @[Len(@) + 1 - i] ] ]
  /\ UNCHANGED <<processEnv, schema, files, rendered>>

\* a component calls useAuthorAndSiteInfo() while it renders
Invoke(c) ==
  /\ Len(calls) < MaxCalls
  /\ calls' = Append(calls, [ by |-> c, result |-> useAuthorAndSiteInfo(schema, store, files) ])
  /\ UNCHANGED <<processEnv, store, schema, files, rendered>>

\* Affiliates renders: it calls the accessor and builds its element
RenderAffiliates ==
  /\ Len(calls) < MaxCalls
  /\ LET result == useAuthorAndSiteInfo(schema, store, files)
     IN  /\ calls' = Append(calls, [ by |-> "Affiliates", result |-> result ])
         /\ rendered' = [ rendered EXCEPT !["Affiliates"] = Affiliates(result) ]
  /\ UNCHANGED <<processEnv, store, schema, files>>

\* a plausible slip: the render switches the service off in the store
RenderCarbonAdDisabling ==
  /\ rendered' = [ rendered EXCEPT !["CarbonAd"] =
                     CarbonAd([ carbonAdsService |-> store.carbonAdsService ]) ]
  /\ store' = [ store EXCEPT !.carbonAdsService.isEnabled = FALSE ]
  /\ UNCHANGED <<processEnv, schema, files, calls>>

\* CarbonAd renders with the store's carbonAdsService as its props
RenderCarbonAd ==
  /\ rendered' = [ rendered EXCEPT !["CarbonAd"] =
                     CarbonAd([ carbonAdsService |-> store.carbonAdsService ]) ]
  /\ UNCHANGED <<processEnv, store, schema, files, calls>>

Next ==
  \/ \E c \in Consumers : Invoke(c)
  \/ RenderAffiliates
  \/ RenderCarbonAd

Spec == Init /\ [][Next]_vars

\* ---------------------------------------------------------------------- claims
\* the results of the calls that returned
Returned == { calls[i].result : i \in { k \in 1..Len(calls) : ~IsThrown(calls[k].result) } }

\* the failures of the data layer: the query does not fit the schema, the
\* picture's file is missing, or the file has no image node
SchemaMalformed == \E type \in DOMAIN AuthorInfoAndPictures :
                     ~(AuthorInfoAndPictures[type] \subseteq schema[type])

AssetMissing == ~\E f \in files : f.relativePath = "louvre.jpg"

ImageNodeMissing == \E f \in files : f.relativePath = "louvre.jpg" /\ ~f.sharp

\* C1: every result of the accessor has site, author.info and affiliates
\* deep-equal to the store's siteInfo, authorInfo and affiliates
C1_ProjectionDeepEqual ==
  \A r \in Returned :
    /\ r.site = store.siteInfo
    /\ r.author.info = store.authorInfo
    /\ r.affiliates = store.affiliates

C1_Witness ==
  \E r \in Returned :
    /\ Len(store.affiliates) = 2
    /\ store.siteInfo.title = "Another Blog"
    /\ r.author.info.nicknames.twitter = "panzerdp"

\* C2: the returned affiliates have the store's length and order, index by
\* index; for the repository's list, react comes first and javascript second
C2_AffiliatesOrder ==
  \A r \in Returned :
    /\ Len(r.affiliates) = Len(store.affiliates)
    /\ \A i \in 1..Len(store.affiliates) : r.affiliates[i].tag = store.affiliates[i].tag
    /\ store.affiliates = affiliates =>
         r.affiliates[1].tag = "react" /\ r.affiliates[2].tag = "javascript"

C2_Witness ==
  \E r \in Returned :
    /\ store.affiliates = affiliates
    /\ r.affiliates[1].tag = "react"
    /\ r.affiliates[2].tag = "javascript"

\* C3: isProductionMode is true exactly when NODE_ENV is set to "production"
\* or to "prod"; it is false for every other value and when NODE_ENV is unset
C3_ProductionMode ==
  store.carbonAdsService.isProductionMode
    <=> \E v \in {"production", "prod"} : processEnv = [n \in {"NODE_ENV"} |-> v]

C3_Witness ==
  /\ processEnv = [n \in {"NODE_ENV"} |-> "prod"]
  /\ store.carbonAdsService.isProductionMode
  /\ rendered["CarbonAd"] # NotRendered

C5_StoreImmutable == [][store' = store]_vars

C5_Witness ==
  /\ \E i \in 1..Len(calls) : calls[i].by = "consumer"
  /\ rendered["Affiliates"] # NotRendered
  /\ rendered["CarbonAd"] # NotRendered
  /\ store \in Definitions(processEnv)

\* C6: when the query does not resolve, or the picture's file or its image
\* node is missing, no call returns a result: each one throws, and the error
\* reaches the component that called
C6_FailurePropagates ==
  (SchemaMalformed \/ AssetMissing \/ ImageNodeMissing) =>
    /\ \A i \in 1..Len(calls) : IsThrown(calls[i].result)
    /\ rendered["Affiliates"] = NotRendered
         \/ \E i \in 1..Len(calls) : calls[i].by = "Affiliates"
                                      /\ rendered["Affiliates"] = calls[i].result

C6_Witness ==
  /\ ~SchemaMalformed
  /\ AssetMissing
  /\ Len(calls) >= 2
  /\ rendered["Affiliates"] = TypeError

SiteInfoFields ==
  { "title", "description", "metaTitle", "metaDescription", "url",
    "repositoryUrl", "githubCommentsRepository", "googleCustomSearchId" }

C8_SiteInfoComplete ==
  /\ \A f \in SiteInfoFields : f \in DOMAIN store.siteInfo /\ store.siteInfo[f] # ""
  /\ \A r \in Returned :
       \A f \in SiteInfoFields : f \in DOMAIN r.site /\ r.site[f] # ""

C8_Witness ==
  \E r \in Returned : r.site.googleCustomSearchId = "004443697379288327791:1zr8pgnumxn"

\* C9: profiles has exactly its five keys and nicknames exactly its one key,
\* in the store and in the author.info of every result
C9_ClosedKeySets ==
  /\ DOMAIN store.authorInfo.profiles = {"stackoverflow", "twitter", "linkedin", "github", "facebook"}
  /\ DOMAIN store.authorInfo.nicknames = {"twitter"}
  /\ \A r \in Returned :
       /\ DOMAIN r.author.info.profiles = {"stackoverflow", "twitter", "linkedin", "github", "facebook"}
       /\ DOMAIN r.author.info.nicknames = {"twitter"}

C9_Witness ==
  \E r \in Returned : r.author.info.profiles.facebook = "https://www.facebook.com/dmitripavlutin.dev"

\* C10: with the repository's store, every result has site.title
\* "Dmitri Pavlutin" and author.info.profiles.github "https://github.com/panzerdp"
C10_RepositoryValues ==
  store = SiteMetadata(processEnv) =>
    \A r \in Returned :
      /\ r.site.title = "Dmitri Pavlutin"
      /\ r.author.info.profiles.github = "https://github.com/panzerdp"

C10_Witness ==
  /\ store = SiteMetadata(processEnv)
  /\ \E r \in Returned : r.site.title = "Dmitri Pavlutin"

\* the children of a rendered CarbonAd that are the component named
ChildrenOf(element, component) ==
  { i \in 1..Len(element.children) : element.children[i].component = component }

\* C11: CarbonAd renders null when isEnabled is false, whatever
\* isProductionMode is; when isEnabled is true it renders the container and
\* exactly one banner: the Live banner, given scriptSrc, exactly when
\* isProductionMode is true, and the Demo banner otherwise
C11_CarbonAdBanner ==
  LET out == rendered["CarbonAd"]
      service == store.carbonAdsService
  IN  out # NotRendered =>
        IF ~service.isEnabled THEN out = Null
        ELSE
          /\ out # Null
          /\ Cardinality(ChildrenOf(out, "div")) = 1
          /\ Cardinality(ChildrenOf(out, "CarbonBannerLive"))
               + Cardinality(ChildrenOf(out, "CarbonBannerDemo")) = 1
          /\ Cardinality(ChildrenOf(out, "CarbonBannerLive")) = 1 <=> service.isProductionMode
          /\ \A i \in ChildrenOf(out, "CarbonBannerLive") :
               out.children[i].scriptSrc = service.scriptSrc

C11_Witness ==
  /\ store.carbonAdsService.isEnabled
  /\ store.carbonAdsService.isProductionMode
  /\ rendered["CarbonAd"] # NotRendered
  /\ rendered["CarbonAd"] # Null
  /\ Cardinality(ChildrenOf(rendered["CarbonAd"], "CarbonBannerLive")) = 1

\* C12: when the accessor returns, a render of Affiliates completes with an
\* element whose mailto links and titles carry the email and the name of the
\* author info that the accessor returned, every name it reads being bound
C12_AffiliatesRenders ==
  \A i \in 1..Len(calls) :
    (calls[i].by = "Affiliates" /\ ~IsThrown(calls[i].result)) =>
      /\ AffiliatesReads \subseteq DOMAIN AffiliatesBindings(calls[i].result)
      /\ rendered["Affiliates"].kind = "element"
      /\ rendered["Affiliates"].iconHref = << "mailto:", calls[i].result.author.info.email >>
      /\ rendered["Affiliates"].iconTitle = << "Write a message to ", calls[i].result.author.info.name >>

====
